---- MODULE Spec2Model ----
\* Model of the resampling / bias-corrected estimation code of the biorad
\* repository: backend/utils.py, model_comparison/model_selection.py,
\* experiments/comparison_schemes.py, experiment/backend/feature_selection.py.
EXTENDS Integers, Sequences, FiniteSets, TLC

\* ------------------------------------------------------------------ bounds
MaxN == 2          \* largest number of rows of X given to a resampler
MaxSplits == 2     \* largest n_splits of a resampler
MaxTrain == 1      \* largest number of rows of X_train
MaxTest == 1       \* largest number of rows of X_test
MaxCV == 2         \* largest number cv of outer folds
NumFeatures == 2   \* X.shape[1] in nested_cross_validation_smac
MaxSel == 2        \* most entries in a fitted selector's support
MaxRows == 2       \* largest number of rows of the bbc_cv score matrix
MaxIter == 2       \* largest n_iter of bbc_cv
MaxLoss == 2       \* largest entry of the bbc_cv score matrix
MaxNum == 2        \* largest numerator (in size) of a float handed to the estimators
MaxDen == 2        \* largest denominator of a float handed to the estimators
MaxLen == 2        \* longest label vector handed to the estimators

\* Python's None where an int seed is expected (seeds are non-negative).
None == -1
\* random_state values a resampler is constructed with.
RandomStates == {None, 0}

VARIABLES
    nrows,      \* np.shape(X)[0] of the X handed to split
    sampler,    \* the resampler object: its class and its fields
    tape,       \* the stream np.random.RandomState(seed) produces for the fixed seed
    gen,        \* the generator object returned by the latest split call
    calls,      \* number of split calls made on the object
    latest,     \* the pair (train_idx, test_idx) yielded last, <<>> before any
    expect,     \* pairs of the first split call the second has yet to yield
    agree       \* the second split call has yielded what the first did, so far

rvars == <<nrows, sampler, tape, gen, calls, latest, expect, agree>>

VARIABLES
    model,      \* the model object given to scale_fit_predict632
    score_func, \* the score function given to scale_fit_predict632
    X_train,    \* training predictor matrix (one column)
    y_train,    \* training labels
    frame,      \* the scale_fit_predict632 call in progress: position and locals
    evals       \* the final frame of each finished scale_fit_predict632 call

evars == <<model, score_func, X_train, y_train, frame, evals>>

VARIABLES
    files,      \* files under path_tmp_results: path -> persisted record
    workflow,   \* the pipeline template of the workflow given by the caller
    run         \* the nested_cross_validation_smac call: position, arguments, locals

nvars == <<files, workflow, run>>

VARIABLES
    selector,   \* the feature selector object, once constructed
    sel_call    \* the latest constructor or check_support call and its outcome

svars == <<selector, sel_call>>

VARIABLES
    bbc         \* the bbc_cv call: position, arguments, locals

bvars == <<bbc>>

VARIABLES
    est         \* the latest call of a .632+ estimator function: arguments, locals, outcome

pvars == <<est>>

vars == <<rvars, evars, nvars, svars, bvars, pvars>>

\* What the actions of each component leave alone.
notR == <<evars, nvars, svars, bvars, pvars>>
notE == <<rvars, nvars, svars, bvars, pvars>>
notN == <<rvars, evars, svars, bvars, pvars>>
notS == <<rvars, evars, nvars, bvars, pvars>>
notB == <<rvars, evars, nvars, svars, pvars>>
notP == <<rvars, evars, nvars, svars, bvars>>

\* ------------------------------------------------------- helper operators
RECURSIVE SetToSeq(_)
\* list(set(...)): the members of a set of small ints, each once.
SetToSeq(S) ==
    IF S = {} THEN <<>>
    ELSE LET m == CHOOSE x \in S : \A y \in S : x <= y
         IN <<m>> \o SetToSeq(S \ {m})

Range(s) == {s[i] : i \in 1..Len(s)}

\* np.arange(nrows)
arange(n) == 0..(n - 1)

\* ------------------------------------------------- numpy RandomState model
\* A RandomState built from an int seed produces one fixed stream (the tape,
\* revealed as it is read); one built from None is seeded from OS entropy and
\* its draws are unconstrained.  rg = [seeded, pos].
RandomState(seed) == [seeded |-> seed # None, pos |-> 0]

\* The vectors rg.choice(sample_indicators, size=n, replace=True) can return.
choice(rg, n) ==
    IF rg.seeded /\ rg.pos < Len(tape)
    THEN {tape[rg.pos + 1]}
    ELSE [1..n -> arange(n)]

\* The tape after rg has drawn v.
TapeAfter(rg, v) ==
    IF rg.seeded /\ rg.pos >= Len(tape) THEN Append(tape, v) ELSE tape

Advance(rg) == [rg EXCEPT !.pos = @ + 1]

\* Mutant of OobIndices: only the first drawn index is taken out of the range.
OobIndices_firstOnly(n, train_idx) == SetToSeq(arange(n) \ {train_idx[1]})

\* test_idx = np.array(list(set(sample_indicators) - set(train_idx)))
OobIndices(n, train_idx) == SetToSeq(arange(n) \ Range(train_idx))

NoGen == [state |-> "none", i |-> 0, rand_gen |-> RandomState(None)]

\* ------------------------------------------------------ float arithmetic
\* A float is [kind, n, d]: the exact rational n/d (d > 0, lowest terms) or NaN.
RECURSIVE GCD(_, _)
GCD(a, b) == IF b = 0 THEN a ELSE GCD(b, a % b)

Abs(a) == IF a < 0 THEN -a ELSE a
Sgn(a) == IF a < 0 THEN -1 ELSE 1

NaN == [kind |-> "nan", n |-> 0, d |-> 1]

Rat(n, d) ==
    LET g == GCD(Abs(n), Abs(d))
        sg == IF d < 0 THEN -1 ELSE 1
    IN [kind |-> "num", n |-> sg * (n \div g), d |-> sg * (d \div g)]

IsNum(a) == a.kind = "num"

\* Common factors are taken out before the products are formed, which keeps
\* the intermediate integers small.
FAdd(a, b) ==
    IF IsNum(a) /\ IsNum(b)
    THEN LET g == GCD(a.d, b.d)
         IN Rat(a.n * (b.d \div g) + b.n * (a.d \div g), (a.d \div g) * b.d)
    ELSE NaN
FSub(a, b) ==
    IF IsNum(a) /\ IsNum(b)
    THEN LET g == GCD(a.d, b.d)
         IN Rat(a.n * (b.d \div g) - b.n * (a.d \div g), (a.d \div g) * b.d)
    ELSE NaN
FMul(a, b) ==
    IF IsNum(a) /\ IsNum(b)
    THEN LET g1 == GCD(Abs(a.n), b.d)
             g2 == GCD(Abs(b.n), a.d)
         IN IF a.n = 0 \/ b.n = 0 THEN Rat(0, 1)
            ELSE Rat((a.n \div g1) * (b.n \div g2), (a.d \div g2) * (b.d \div g1))
    ELSE NaN
\* a / b for b # 0
FDiv(a, b) ==
    IF IsNum(a) /\ IsNum(b)
    THEN FMul(a, [kind |-> "num", n |-> Sgn(b.n) * b.d, d |-> Abs(b.n)])
    ELSE NaN
\* a > b; every comparison with NaN is False
FGreater(a, b) ==
    /\ IsNum(a) /\ IsNum(b)
    /\ LET g == GCD(a.d, b.d)
       IN a.n * (b.d \div g) > b.n * (a.d \div g)
IsZero(a) == IsNum(a) /\ a.n = 0
\* Python's min(a, b): b if b < a else a
FMin(a, b) == IF FGreater(a, b) THEN b ELSE a

\* np.sum(y) / np.size(y): numpy gives nan (and a warning) for 0 / 0.
NpMean(total, size) == IF size = 0 THEN NaN ELSE Rat(total, size)

RECURSIVE SeqSum(_)
SeqSum(s) == IF s = <<>> THEN 0 ELSE s[1] + SeqSum(Tail(s))

\* The literals 0.368 and 0.632 of point632plus.
W368 == Rat(368, 1000)
W632 == Rat(632, 1000)
One == Rat(1, 1)
Zero == Rat(0, 1)

\* ------------------------------------------------- .632+ estimator, utils.py
\* Each returns [exc, val]: exc names the exception raised, "" for none.
Ok(v) == [exc |-> "", val |-> v]
Raise(e) == [exc |-> e, val |-> NaN]

\* Mutant of point632plus: frac lacks the factor r_marked.
point632plus_noRateFactor(train_score, test_score, r_marked, test_score_marked) ==
    LET point632 == FAdd(FMul(W368, train_score), FMul(W632, test_score))
        den == FSub(One, FMul(W368, r_marked))
    IN IF IsZero(den) THEN Raise("ZeroDivisionError")
       ELSE LET frac == FDiv(FMul(W368, W632), den)
            IN Ok(FAdd(point632, FMul(FSub(test_score_marked, train_score), frac)))

\* point632plus (jit-compiled: a zero divisor raises ZeroDivisionError).
point632plus(train_score, test_score, r_marked, test_score_marked) ==
    LET point632 == FAdd(FMul(W368, train_score), FMul(W632, test_score))
        den == FSub(One, FMul(W368, r_marked))
    IN IF IsZero(den) THEN Raise("ZeroDivisionError")
       ELSE LET frac == FDiv(FMul(FMul(W368, W632), r_marked), den)
            IN Ok(FAdd(point632, FMul(FSub(test_score_marked, train_score), frac)))

\* Mutant of relative_overfit_rate: the test `gamma > train_score` is left out.
relative_overfit_rate_noGammaGuard(train_score, test_score, gamma) ==
    IF FGreater(test_score, train_score)
    THEN LET den == FSub(gamma, train_score)
         IN IF IsZero(den) THEN Raise("ZeroDivisionError")
            ELSE Ok(FDiv(FSub(test_score, train_score), den))
    ELSE Ok(Zero)

\* relative_overfit_rate (jit-compiled: a zero divisor raises ZeroDivisionError).
relative_overfit_rate(train_score, test_score, gamma) ==
    IF FGreater(test_score, train_score) /\ FGreater(gamma, train_score)
    THEN LET den == FSub(gamma, train_score)
         IN IF IsZero(den) THEN Raise("ZeroDivisionError")
            ELSE Ok(FDiv(FSub(test_score, train_score), den))
    ELSE Ok(Zero)

\* Mutant of no_info_rate: the term (1 - p_one) * q_one is left out.
no_info_rate_oneTerm(y_true, y_pred) ==
    LET p_one == NpMean(SeqSum(y_true), Len(y_true))
        q_one == NpMean(SeqSum(y_pred), Len(y_pred))
    IN FMul(p_one, FSub(One, q_one))

\* no_info_rate: p_one and q_one are the shares of ones in the two vectors.
no_info_rate(y_true, y_pred) ==
    LET p_one == NpMean(SeqSum(y_true), Len(y_true))
        q_one == NpMean(SeqSum(y_pred), Len(y_pred))
    IN FAdd(FMul(p_one, FSub(One, q_one)), FMul(FSub(One, p_one), q_one))

point632plus_score(y_true, y_pred, train_score, test_score) ==
    LET gamma == no_info_rate(y_true, y_pred)
        test_score_marked == FMin(test_score, gamma)
        r_marked == relative_overfit_rate(train_score, test_score, gamma)
    IN IF r_marked.exc # "" THEN Raise(r_marked.exc)
       ELSE point632plus(train_score, test_score, r_marked.val, test_score_marked)

\* Floats handed to the estimator functions: the fractions of small numerator
\* and denominator, of either sign, and NaN.
Floats ==
    {Rat(n, d) : n \in (-MaxNum)..MaxNum, d \in 1..MaxDen} \cup {NaN}
\* Label vectors of a dichotomous problem, the empty one included.
BinaryVectors == UNION {[1..n -> {0, 1}] : n \in 0..MaxLen}

NoEst == [op |-> "", args |-> <<>>, gamma |-> NaN, r_marked |-> NaN,
          exc |-> "", val |-> NaN]

PIdle == est = NoEst

\* ------------------------------------------- collaborators of the evaluator
\* Values of the single predictor column, and the binary labels.
FeatureValues == {0, 1}
Labels == {0, 1}

\* Stub models (duck-typed fit/predict) and score functions the caller passes.
Models == {"threshold", "majority", "fit_raises", "predict_raises"}
ScoreFuncs == {"accuracy", "score_raises"}

\* Python's None as a returned score.
NoneVal == [kind |-> "None", n |-> 0, d |-> 1]

Sign(k) == IF k > 0 THEN 1 ELSE IF k < 0 THEN -1 ELSE 0

NoScaler == [mean_ |-> NaN, var_ |-> NaN]
NoFit == [X |-> <<>>, y |-> <<>>]

\* StandardScaler().fit(X): mean_ and var_ of the column.
StandardScaler_fit(X) ==
    LET n == Len(X)
        mean == Rat(SeqSum(X), n)
        sq == [i \in 1..n |-> X[i] * X[i]]
    IN [mean_ |-> mean, var_ |-> FSub(Rat(SeqSum(sq), n), FMul(mean, mean))]

\* One standardized entry (x - mean_) / scale_, scale_ = sqrt(var_), or 1 when
\* var_ is 0.  Held exactly as its sign and its square.
ZScore(scaler, x) ==
    LET dlt == FSub(Rat(x, 1), scaler.mean_)
        sq == FMul(dlt, dlt)
    IN [sgn |-> Sign(dlt.n),
        sq |-> IF IsZero(scaler.var_) THEN sq ELSE FDiv(sq, scaler.var_)]

StandardScaler_transform(scaler, X) == [i \in 1..Len(X) |-> ZScore(scaler, X[i])]

\* Mutant of train_test_z_scores: the scaler is fitted on train and test rows.
train_test_z_scores_leaky(Xtr, Xte) ==
    IF Len(Xtr) = 0
    THEN [exc |-> "ValueError", scaler |-> NoScaler,
          X_train_std |-> <<>>, X_test_std |-> <<>>]
    ELSE LET scaler == StandardScaler_fit(Xtr \o Xte)
             Xtr_std == StandardScaler_transform(scaler, Xtr)
         IN IF Len(Xte) = 0
            THEN [exc |-> "ValueError", scaler |-> scaler,
                  X_train_std |-> Xtr_std, X_test_std |-> <<>>]
            ELSE [exc |-> "", scaler |-> scaler, X_train_std |-> Xtr_std,
                  X_test_std |-> StandardScaler_transform(scaler, Xte)]

\* Mutant of train_test_z_scores: transform accepts an X_test of no rows.
train_test_z_scores_allowsEmpty(Xtr, Xte) ==
    IF Len(Xtr) = 0
    THEN [exc |-> "ValueError", scaler |-> NoScaler,
          X_train_std |-> <<>>, X_test_std |-> <<>>]
    ELSE LET scaler == StandardScaler_fit(Xtr)
         IN [exc |-> "", scaler |-> scaler,
             X_train_std |-> StandardScaler_transform(scaler, Xtr),
             X_test_std |-> StandardScaler_transform(scaler, Xte)]

\* train_test_z_scores: fit_transform on X_train, transform on X_test.  sklearn
\* rejects an array of 0 rows with ValueError.
train_test_z_scores(Xtr, Xte) ==
    IF Len(Xtr) = 0
    THEN [exc |-> "ValueError", scaler |-> NoScaler,
          X_train_std |-> <<>>, X_test_std |-> <<>>]
    ELSE LET scaler == StandardScaler_fit(Xtr)
             Xtr_std == StandardScaler_transform(scaler, Xtr)
         IN IF Len(Xte) = 0
            THEN [exc |-> "ValueError", scaler |-> scaler,
                  X_train_std |-> Xtr_std, X_test_std |-> <<>>]
            ELSE [exc |-> "", scaler |-> scaler, X_train_std |-> Xtr_std,
                  X_test_std |-> StandardScaler_transform(scaler, Xte)]

\* model.fit(X, y): the fitted state is the data it was fitted on.
model_fit(m, X, y) ==
    IF m = "fit_raises" THEN [exc |-> "RuntimeError", fitted |-> NoFit]
    ELSE [exc |-> "", fitted |-> [X |-> X, y |-> y]]

\* model.predict(X)
model_predict(m, fitted, X) ==
    IF m = "predict_raises" THEN [exc |-> "RuntimeError", val |-> <<>>]
    ELSE IF m = "majority"
    THEN [exc |-> "",
          val |-> [i \in 1..Len(X) |->
                     IF 2 * SeqSum(fitted.y) >= Len(fitted.y) THEN 1 ELSE 0]]
    ELSE [exc |-> "", val |-> [i \in 1..Len(X) |-> IF X[i].sgn > 0 THEN 1 ELSE 0]]

\* score_func(y_true, y_pred)
score_call(sf, y_true, y_pred) ==
    IF sf = "score_raises" THEN Raise("ValueError")
    ELSE Ok(NpMean(Cardinality({i \in 1..Len(y_true) : y_true[i] = y_pred[i]}),
                   Len(y_true)))

\* ------------------------------------ nested_cross_validation_smac: data
\* A dict is a function from its keys; d.update(e) lets e's entries win.
EmptyDict == [k \in {} |-> 0]
Update(d, e) == e @@ d

RECURSIVE FSum(_)
FSum(s) == IF s = <<>> THEN Zero ELSE FAdd(s[1], FSum(Tail(s)))

\* np.mean(scores): nan (and a warning) for an empty list.
np_mean(scores) ==
    IF scores = <<>> THEN NaN ELSE FDiv(FSum(scores), Rat(Len(scores), 1))

\* np.var(scores): the mean squared deviation from the mean.
np_var(scores) ==
    LET mu == np_mean(scores)
    IN np_mean([i \in 1..Len(scores) |->
                  FMul(FSub(scores[i], mu), FSub(scores[i], mu))])

\* Arguments the caller may pass.
Seeds == {7, 8}
ExperimentId == "x"
TmpDir == "tmp"
NoPath == "None"
\* Values score_func returns for a fold.
ScoreValues == {Zero, One}
\* Configurations the search may return as best_config, and the template's own.
Configs == {[C |-> 1], [C |-> 2]}
DefaultParams == [C |-> 0]
\* Supports a fitted selector stage may hold: index arrays with at most MaxSel
\* entries (repeats allowed), or the NaN sentinel.
IndexSupports ==
    UNION {[1..n -> 0..(NumFeatures - 1)] : n \in 0..MaxSel}
Supports ==
    {[nan |-> FALSE, idx |-> sup] : sup \in IndexSupports}
        \cup {[nan |-> TRUE, idx |-> <<>>]}

\* Mutant of path_case_file: the seed is left out of the file name.
path_case_file_noSeed(path_tmp_results, random_state, experiment_id) ==
    IF path_tmp_results = NoPath THEN <<>>
    ELSE <<path_tmp_results, "experiment", None, experiment_id>>

\* os.path.join(path_tmp_results, f'experiment_{random_state}_{experiment_id}'),
\* or '' (here the empty path) when path_tmp_results is None.
path_case_file(path_tmp_results, random_state, experiment_id) ==
    IF path_tmp_results = NoPath THEN <<>>
    ELSE <<path_tmp_results, "experiment", random_state, experiment_id>>

\* os.path.isfile(path): False for the empty path.
isfile(path) == path # <<>> /\ path \in DOMAIN files

\* ioutil.read_prelim_result(path): the persisted record.
read_prelim_result(path) == files[path]

\* The files after ioutil.write_prelim_results(path, record).
write_prelim_results(path, record) == (path :> record) @@ files

\* Records an earlier, completed run may have left under path_tmp_results.
PriorRecords ==
    {[exp_id |-> 7, experiment_id |-> ExperimentId, C |-> 2,
      test_score |-> One, train_score |-> One,
      test_score_variance |-> Zero, train_score_variance |-> Zero,
      feature_votes |-> [i \in 0..(NumFeatures - 1) |-> 1]]}

\* Mutant of add_votes: one increment per occurrence of an index (np.add.at).
add_votes_perOccurrence(feature_votes, support) ==
    [i \in DOMAIN feature_votes |->
        feature_votes[i] + Cardinality({k \in 1..Len(support) : support[k] = i})]

\* feature_votes[support] += 1: numpy's buffered fancy-index assignment adds 1
\* once at every index present in support, however often it repeats.
add_votes(feature_votes, support) ==
    [i \in DOMAIN feature_votes |->
        IF i \in Range(support) THEN feature_votes[i] + 1 ELSE feature_votes[i]]

\* A pipeline object: its identity, its parameters and whether it has been
\* fitted.  The caller's template is object 0.
Template == [id |-> 0, params |-> DefaultParams, fitted |-> FALSE]
\* A name not yet bound to a pipeline object.
NoPipeline == [id |-> None, params |-> DefaultParams, fitted |-> FALSE]

\* Mutant of deepcopy: the object itself is handed back.
deepcopy_sameObject(obj) == obj

\* copy.deepcopy(obj): a new object (the next unused identity) of equal content.
deepcopy(obj) == [obj EXCEPT !.id = run.copies + 1]

\* obj.set_params(**hparams) and obj.fit(X, y), as the object afterwards.
set_params(obj, hparams) == [obj EXCEPT !.params = hparams]
fit(obj) == [obj EXCEPT !.fitted = TRUE]

\* What the name bound to obj shows after the object w was changed in place:
\* the change, when both are the same object.
Seen(obj, w) == IF obj.id = w.id THEN w ELSE obj

NoRun ==
    [pc |-> "idle", random_state |-> None, cv |-> 0, verbose |-> 0,
     path_tmp_results |-> NoPath, case_file |-> <<>>, resumed |-> FALSE,
     output |-> EmptyDict, test_scores |-> <<>>, train_scores |-> <<>>,
     feature_votes |-> <<>>, fold |-> 0, best_config |-> DefaultParams,
     pipeline_inner |-> NoPipeline, pipeline_outer |-> NoPipeline,
     splits |-> 0, searches |-> 0, fits |-> 0, writes |-> 0, copies |-> 0,
     chosen |-> {}, failed |-> FALSE, exc |-> ""]

NIdle ==
    /\ files = EmptyDict
    /\ workflow = Template
    /\ run = NoRun

\* ------------------------------------------ BaseSelector, feature_selection.py
\* Mutant of VALID_ERROR_MECHANISMS: 'ignore' is accepted too.
VALID_ERROR_MECHANISMS_withIgnore == {"return_all", "return_NaN", "ignore"}

VALID_ERROR_MECHANISMS == {"return_all", "return_NaN"}

\* The selector classes; each subclass's __init__ starts with
\* super().__init__(error_handling).
SelectorClasses ==
    {"BaseSelector", "PermutationSelection", "WilcoxonSelection",
     "ReliefFSelection", "MRMRSelection"}
\* error_handling values a caller may pass.
ErrorHandlings == {"return_all", "return_NaN", "ignore", "RETURN_ALL"}

\* A value handed around as a support: an ndarray or a Python sequence, given
\* by its shape and its entries in row-major order, or the float np.nan.
NdArray(shape, data) == [kind |-> "ndarray", shape |-> shape, data |-> data]
NanFloat == [kind |-> "float", shape |-> <<>>, data |-> <<>>]
NoneSupport == [kind |-> "None", shape |-> <<>>, data |-> <<>>]

RECURSIVE Product(_)
Product(dims) == IF dims = <<>> THEN 1 ELSE dims[1] * Product(Tail(dims))

np_size(v) == Product(v.shape)
np_ndim(v) == Len(v.shape)
np_array(v) == NdArray(v.shape, v.data)

RECURSIVE DropOnes(_)
DropOnes(dims) ==
    IF dims = <<>> THEN <<>>
    ELSE IF dims[1] = 1 THEN DropOnes(Tail(dims))
    ELSE <<dims[1]>> \o DropOnes(Tail(dims))

\* np.squeeze(v): the axes of length 1 removed.
np_squeeze(v) == NdArray(DropOnes(v.shape), v.data)

\* np.arange(n, dtype=int) as an array value.
arange_array(n) == NdArray(<<n>>, [i \in 1..n |-> i - 1])

\* BaseSelector.check_support(support, X) for a selector with the given
\* error_handling and an X of ncols columns: [exc, val].
check_support(error_handling, support, ncols) ==
    LET s1 == IF support.kind # "ndarray" THEN np_array(support) ELSE support
        empty == np_size(s1) < 1
        s2 == IF ~empty THEN s1
              ELSE IF error_handling = "return_all" THEN arange_array(ncols)
              ELSE NanFloat
        s3 == IF np_ndim(s2) > 1 THEN np_squeeze(s2) ELSE s2
        s4 == IF np_ndim(s3) < 1 THEN NdArray(<<1>> \o s3.shape, s3.data) ELSE s3
    IN IF empty /\ error_handling \notin VALID_ERROR_MECHANISMS
       THEN [exc |-> "RuntimeError", val |-> NoneSupport]
       ELSE IF np_ndim(s3) < 1 /\ s3.kind = "float"
       THEN [exc |-> "TypeError", val |-> NoneSupport]
       ELSE IF error_handling = "return_all" /\ np_ndim(s4) # 1
       THEN [exc |-> "AssertionError", val |-> NoneSupport]
       ELSE [exc |-> "", val |-> s4]

\* Supports the selection algorithms hand to check_support for an X of ncols
\* columns: k column indices as a 1-D array, or as np.where's 1-tuple of one
\* array (shape (1, k)), or as a column (shape (k, 1)).
SupportInputs(ncols) ==
    UNION {{[kind |-> kind, shape |-> shape, data |-> data] :
              kind \in {"ndarray", "tuple"},
              shape \in {<<k>>, <<1, k>>, <<k, 1>>},
              data \in [1..k -> 0..(ncols - 1)]} : k \in 0..MaxSel}

NoSelector == [exists |-> FALSE, error_handling |-> "", support |-> NoneSupport]
NoSelCall == [op |-> "", cls |-> "", error_handling |-> "", support |-> NoneSupport,
              ncols |-> 0, exc |-> "", val |-> NoneSupport, created |-> FALSE]

SIdle ==
    /\ selector = NoSelector
    /\ sel_call = NoSelCall

\* ------------------------------------------------- bbc_cv, model_selection.py
NumConfigs == 2     \* columns (configurations) of the bbc_cv score matrix

\* np.argmin(scores[idxs, :]): the index, in the flattened resampled matrix,
\* of the first smallest entry.
RECURSIVE Flatten(_)
Flatten(rows) == IF rows = <<>> THEN <<>> ELSE rows[1] \o Flatten(Tail(rows))

np_argmin(rows) ==
    LET flat == Flatten(rows)
    IN (CHOOSE i \in 1..Len(flat) :
            /\ \A j \in 1..Len(flat) : flat[i] <= flat[j]
            /\ \A j \in 1..(i - 1) : flat[j] > flat[i]) - 1

NoBbc == [pc |-> "idle", scores |-> <<>>, n_iter |-> 0, it |-> 0,
          loss_bbc |-> 0, exc |-> "", result |-> NaN]

BIdle == bbc = NoBbc

\* ------------------------------------------------ scale_fit_predict632
\* The frame of a scale_fit_predict632 call: its position and its locals.
NoFrame ==
    [pc |-> "idle", X_test |-> <<>>, y_test |-> <<>>, scaler |-> NoScaler,
     X_train_std |-> <<>>, X_test_std |-> <<>>, fitted |-> NoFit,
     y_train_pred |-> <<>>, train_score |-> NoneVal,
     y_test_pred |-> <<>>, test_score |-> NoneVal,
     train_632_score |-> NoneVal, test_632_score |-> NoneVal,
     caught |-> "", exc |-> ""]

\* Mutant of Catches: `except ValueError:` in place of the bare `except:`.
Catches_ValueErrorOnly(e) == e = "ValueError"

\* The bare `except:` clause handles every exception.
Catches(e) == TRUE

RIdle ==
    /\ nrows = 1
    /\ sampler = [cls |-> "BootstrapOutOfBag", n_splits |-> 0,
                  random_state |-> None, rgen |-> RandomState(None)]
    /\ tape = <<>>
    /\ gen = NoGen
    /\ calls = 0
    /\ latest = <<>>
    /\ expect = <<>>
    /\ agree = TRUE

EIdle ==
    /\ model = "threshold"
    /\ score_func = "accuracy"
    /\ X_train = <<0>>
    /\ y_train = <<0>>
    /\ evals = <<>>
    /\ frame = NoFrame

EInit ==
    /\ PIdle
    /\ SIdle
    /\ BIdle
    /\ RIdle
    /\ NIdle
    /\ model \in Models
    /\ score_func \in ScoreFuncs
    /\ \E n \in 1..MaxTrain :
          /\ X_train \in [1..n -> FeatureValues]
          /\ y_train \in [1..n -> Labels]
    /\ evals = <<>>
    /\ frame = NoFrame

\* A caller enters scale_fit_predict632 with the fixed model and training data
\* and a test partition of its choice (possibly of no rows).
Call_scale_fit_predict632 ==
    /\ frame.pc = "idle"
    /\ Len(evals) < 2
    /\ \E n \in 0..MaxTest :
          \E X_test \in [1..n -> FeatureValues], y_test \in [1..n -> Labels] :
             frame' = [NoFrame EXCEPT !.pc = "z_scores",
                                      !.X_test = X_test, !.y_test = y_test]
    /\ UNCHANGED <<model, score_func, X_train, y_train, evals>>
    /\ UNCHANGED notE

\* The frame after an exception e was raised inside the try block.
Raised(e) == [frame EXCEPT !.pc = "except", !.exc = e]

\* X_train_std, X_test_std = train_test_z_scores(X_train, X_test)
Do_train_test_z_scores ==
    /\ frame.pc = "z_scores"
    /\ LET z == train_test_z_scores(X_train, frame.X_test)
       IN frame' = [(IF z.exc # "" THEN Raised(z.exc)
                     ELSE [frame EXCEPT !.pc = "fit"])
                    EXCEPT !.scaler = z.scaler,
                           !.X_train_std = z.X_train_std,
                           !.X_test_std = z.X_test_std]
    /\ UNCHANGED <<model, score_func, X_train, y_train, evals>>
    /\ UNCHANGED notE

\* model.fit(X_train_std, y_train)
Do_fit ==
    /\ frame.pc = "fit"
    /\ LET f == model_fit(model, frame.X_train_std, y_train)
       IN frame' = IF f.exc # "" THEN Raised(f.exc)
                   ELSE [frame EXCEPT !.pc = "predict_train", !.fitted = f.fitted]
    /\ UNCHANGED <<model, score_func, X_train, y_train, evals>>
    /\ UNCHANGED notE

\* y_train_pred = model.predict(X_train_std)
Do_predict_train ==
    /\ frame.pc = "predict_train"
    /\ LET r == model_predict(model, frame.fitted, frame.X_train_std)
       IN frame' = IF r.exc # "" THEN Raised(r.exc)
                   ELSE [frame EXCEPT !.pc = "score_train", !.y_train_pred = r.val]
    /\ UNCHANGED <<model, score_func, X_train, y_train, evals>>
    /\ UNCHANGED notE

\* train_score = score_func(y_train, y_train_pred)
Do_score_train ==
    /\ frame.pc = "score_train"
    /\ LET r == score_call(score_func, y_train, frame.y_train_pred)
       IN frame' = IF r.exc # "" THEN Raised(r.exc)
                   ELSE [frame EXCEPT !.pc = "predict_test", !.train_score = r.val]
    /\ UNCHANGED <<model, score_func, X_train, y_train, evals>>
    /\ UNCHANGED notE

\* y_test_pred = model.predict(X_test_std)
Do_predict_test ==
    /\ frame.pc = "predict_test"
    /\ LET r == model_predict(model, frame.fitted, frame.X_test_std)
       IN frame' = IF r.exc # "" THEN Raised(r.exc)
                   ELSE [frame EXCEPT !.pc = "score_test", !.y_test_pred = r.val]
    /\ UNCHANGED <<model, score_func, X_train, y_train, evals>>
    /\ UNCHANGED notE

\* test_score = score_func(y_test, y_test_pred)
Do_score_test ==
    /\ frame.pc = "score_test"
    /\ LET r == score_call(score_func, frame.y_test, frame.y_test_pred)
       IN frame' = IF r.exc # "" THEN Raised(r.exc)
                   ELSE [frame EXCEPT !.pc = "train_632", !.test_score = r.val]
    /\ UNCHANGED <<model, score_func, X_train, y_train, evals>>
    /\ UNCHANGED notE

\* train_632_score = point632plus_score(y_train, y_train_pred, train_score, test_score)
Do_train_632 ==
    /\ frame.pc = "train_632"
    /\ LET r == point632plus_score(y_train, frame.y_train_pred,
                                   frame.train_score, frame.test_score)
       IN frame' = IF r.exc # "" THEN Raised(r.exc)
                   ELSE [frame EXCEPT !.pc = "test_632", !.train_632_score = r.val]
    /\ UNCHANGED <<model, score_func, X_train, y_train, evals>>
    /\ UNCHANGED notE

\* test_632_score = point632plus_score(y_test, y_test_pred, train_score, test_score)
Do_test_632 ==
    /\ frame.pc = "test_632"
    /\ LET r == point632plus_score(frame.y_test, frame.y_test_pred,
                                   frame.train_score, frame.test_score)
       IN frame' = IF r.exc # "" THEN Raised(r.exc)
                   ELSE [frame EXCEPT !.pc = "return", !.test_632_score = r.val]
    /\ UNCHANGED <<model, score_func, X_train, y_train, evals>>
    /\ UNCHANGED notE

\* return train_632_score, test_632_score
Return_scores ==
    /\ frame.pc = "return"
    /\ evals' = Append(evals, [frame EXCEPT !.pc = "returned"])
    /\ frame' = NoFrame
    /\ UNCHANGED <<model, score_func, X_train, y_train>>
    /\ UNCHANGED notE

\* except: return None, None.  An exception the clause does not handle leaves
\* the call and reaches the caller.
Except_return_None ==
    /\ frame.pc = "except"
    /\ evals' = Append(evals,
          IF Catches(frame.exc)
          THEN [frame EXCEPT !.pc = "returned", !.caught = frame.exc, !.exc = "",
                             !.train_632_score = NoneVal, !.test_632_score = NoneVal]
          ELSE [frame EXCEPT !.pc = "raised"])
    /\ frame' = NoFrame
    /\ UNCHANGED <<model, score_func, X_train, y_train>>
    /\ UNCHANGED notE

ENext ==
    \/ Call_scale_fit_predict632
    \/ Do_train_test_z_scores
    \/ Do_fit
    \/ Do_predict_train
    \/ Do_score_train
    \/ Do_predict_test
    \/ Do_score_test
    \/ Do_train_632
    \/ Do_test_632
    \/ Return_scores
    \/ Except_return_None

\* ---------------------------------------------------------- Init, resampler
RInit ==
    /\ PIdle
    /\ SIdle
    /\ BIdle
    /\ EIdle
    /\ NIdle
    /\ nrows \in 1..MaxN
    /\ \E cls \in {"BootstrapOutOfBag", "OOBSampler"},
          n \in 0..MaxSplits, seed \in RandomStates :
          sampler = [cls |-> cls, n_splits |-> n, random_state |-> seed,
                     rgen |-> RandomState(seed)]
    /\ tape = <<>>
    /\ gen = NoGen
    /\ calls = 0
    /\ latest = <<>>
    /\ expect = <<>>
    /\ agree = TRUE

\* The caller receives a yielded pair: the first split call's pairs are kept,
\* the second call's pairs are compared with them in order, up to the first
\* pair that differs.
Yield(pair) ==
    /\ latest' = pair
    /\ IF calls = 1
       THEN /\ expect' = Append(expect, pair)
            /\ agree' = agree
       ELSE LET same == agree /\ expect # <<>> /\ pair = Head(expect)
            IN /\ expect' = IF same THEN Tail(expect) ELSE <<>>
               /\ agree' = same

\* BootstrapOutOfBag.split(X, y): calling a generator function runs none of
\* its body; it returns a generator object.
BootstrapOutOfBag_split ==
    /\ sampler.cls = "BootstrapOutOfBag"
    /\ gen.state \in {"none", "exhausted"}
    /\ calls < 2
    /\ calls' = calls + 1
    /\ gen' = [state |-> "created", i |-> 0, rand_gen |-> RandomState(None)]
    /\ UNCHANGED <<nrows, sampler, tape, latest, expect, agree>>
    /\ UNCHANGED notR

\* next() on the generator of BootstrapOutOfBag.split: the first resumption
\* builds rand_gen from self.random_state, then one loop iteration per next().
BootstrapOutOfBag_next ==
    /\ sampler.cls = "BootstrapOutOfBag"
    /\ gen.state \in {"created", "suspended"}
    /\ LET rg == IF gen.state = "created"
                 THEN RandomState(sampler.random_state)
                 ELSE gen.rand_gen
       IN IF gen.i < sampler.n_splits
          THEN \E train_idx \in choice(rg, nrows) :
                  /\ tape' = TapeAfter(rg, train_idx)
                  /\ Yield(<<train_idx, OobIndices(nrows, train_idx)>>)
                  /\ gen' = [state |-> "suspended", i |-> gen.i + 1,
                             rand_gen |-> Advance(rg)]
          ELSE /\ gen' = [gen EXCEPT !.state = "exhausted", !.rand_gen = rg]
               /\ UNCHANGED <<tape, latest, expect, agree>>
    /\ UNCHANGED <<nrows, sampler, calls>>
    /\ UNCHANGED notR

\* OOBSampler.split(X): returns a generator object.
OOBSampler_split ==
    /\ sampler.cls = "OOBSampler"
    /\ gen.state \in {"none", "exhausted"}
    /\ calls < 2
    /\ calls' = calls + 1
    /\ gen' = [state |-> "created", i |-> 0, rand_gen |-> RandomState(None)]
    /\ UNCHANGED <<nrows, sampler, tape, latest, expect, agree>>
    /\ UNCHANGED notR

\* next() on the generator of OOBSampler.split: draws from self.rgen, the
\* RandomState built once in __init__.  That stream is read once at each
\* position and never from its start again, so none of it is kept on the tape.
OOBSampler_next ==
    /\ sampler.cls = "OOBSampler"
    /\ gen.state \in {"created", "suspended"}
    /\ IF gen.i < sampler.n_splits
       THEN \E train_idx \in choice(sampler.rgen, nrows) :
               /\ Yield(<<train_idx, OobIndices(nrows, train_idx)>>)
               /\ gen' = [gen EXCEPT !.state = "suspended", !.i = @ + 1]
               /\ sampler' = [sampler EXCEPT !.rgen = Advance(@)]
       ELSE /\ gen' = [gen EXCEPT !.state = "exhausted"]
            /\ UNCHANGED <<latest, expect, agree, sampler>>
    /\ UNCHANGED <<nrows, calls, tape>>
    /\ UNCHANGED notR

RNext ==
    \/ BootstrapOutOfBag_split
    \/ BootstrapOutOfBag_next
    \/ OOBSampler_split
    \/ OOBSampler_next

SpecResampler == RInit /\ [][RNext]_vars

SpecEval == EInit /\ [][ENext]_vars

\* ------------------------------------ nested_cross_validation_smac: steps
\* The directory path_tmp_results holds the record of an earlier run with seed
\* 7; a call finds no file with another seed or without path_tmp_results.
NInit ==
    /\ PIdle
    /\ SIdle
    /\ BIdle
    /\ RIdle
    /\ EIdle
    /\ \E rec \in PriorRecords :
          files = (<<TmpDir, "experiment", 7, ExperimentId>> :> rec)
    /\ workflow = Template
    /\ run = NoRun

\* Entry up to the outer loop: the resume test, and either the reload of the
\* persisted record or the set-up of the accumulators and the fold generator.
NCV_call ==
    /\ run.pc = "idle"
    /\ \E random_state \in Seeds, cv \in 2..MaxCV, verbose \in {0, 1},
          path_tmp_results \in {NoPath, TmpDir} :
          LET path == path_case_file(path_tmp_results, random_state, ExperimentId)
              args == [NoRun EXCEPT !.random_state = random_state, !.cv = cv,
                                    !.verbose = verbose,
                                    !.path_tmp_results = path_tmp_results,
                                    !.case_file = path]
          IN run' = IF isfile(path)
                    THEN [args EXCEPT !.pc = "return", !.resumed = TRUE,
                                      !.output = read_prelim_result(path)]
                    ELSE [args EXCEPT !.pc = "loop",
                             !.output = [exp_id |-> random_state,
                                         experiment_id |-> ExperimentId],
                             !.feature_votes = [i \in 0..(NumFeatures - 1) |-> 0]]
    /\ UNCHANGED <<files, workflow>>
    /\ UNCHANGED notN

\* for (train_idx, test_idx) in kfolds.split(X, y): the next outer fold and
\* pipeline_inner = deepcopy(pipeline), or the end of the loop after cv folds.
NCV_next_fold ==
    /\ run.pc = "loop"
    /\ run' = IF run.fold < run.cv
              THEN [run EXCEPT !.pc = "search", !.fold = @ + 1, !.splits = @ + 1,
                               !.pipeline_inner = deepcopy(workflow),
                               !.copies = @ + 1]
              ELSE [run EXCEPT !.pc = "aggregate"]
    /\ UNCHANGED <<files, workflow>>
    /\ UNCHANGED notN

\* optimizer.fit(X_train, y_train); output.update(**optimizer.best_config).
\* Every inner fold of cv_objective_fn sets hparams on, and fits, its own
\* deepcopy(self.workflow) of pipeline_inner; the search may raise.
NCV_search ==
    /\ run.pc = "search"
    /\ \/ \E cfg \in Configs, hparams \in Configs :
             LET w == fit(set_params(deepcopy(run.pipeline_inner), hparams))
             IN /\ run' = [run EXCEPT !.pc = "final_fit", !.searches = @ + 1,
                                      !.best_config = cfg,
                                      !.chosen = @ \cup {cfg},
                                      !.output = Update(@, cfg),
                                      !.pipeline_inner = Seen(@, w),
                                      !.copies = @ + 1]
                /\ workflow' = Seen(workflow, w)
       \/ /\ run' = [run EXCEPT !.pc = "raised", !.searches = @ + 1,
                                !.failed = TRUE, !.exc = "search"]
          /\ workflow' = workflow
    /\ UNCHANGED files
    /\ UNCHANGED notN

\* pipeline_outer = deepcopy(pipeline); set_params(**best_config); fit(...).
NCV_final_fit ==
    /\ run.pc = "final_fit"
    /\ LET configured == set_params(deepcopy(workflow), run.best_config)
       IN \/ /\ run' = [run EXCEPT !.pc = "vote", !.fits = @ + 1,
                            !.pipeline_outer = fit(configured),
                            !.pipeline_inner = Seen(@, fit(configured)),
                            !.copies = @ + 1]
             /\ workflow' = Seen(workflow, fit(configured))
          \/ /\ run' = [run EXCEPT !.pc = "raised", !.fits = @ + 1,
                            !.pipeline_outer = configured,
                            !.pipeline_inner = Seen(@, configured),
                            !.copies = @ + 1,
                            !.failed = TRUE, !.exc = "fit"]
             /\ workflow' = Seen(workflow, configured)
    /\ UNCHANGED files
    /\ UNCHANGED notN

\* feature_votes[pipeline_outer.steps[-2][-1].support] += 1; a NaN support is
\* no index array and raises IndexError.
NCV_vote ==
    /\ run.pc = "vote"
    /\ \E support \in Supports :
          run' = IF support.nan
                 THEN [run EXCEPT !.pc = "raised", !.failed = TRUE, !.exc = "vote"]
                 ELSE [run EXCEPT !.pc = "score_test",
                          !.feature_votes = add_votes(@, support.idx)]
    /\ UNCHANGED <<files, workflow>>
    /\ UNCHANGED notN

\* test_scores.append(score_func(y_test, pipeline_outer.predict(X_test)))
NCV_score_test ==
    /\ run.pc = "score_test"
    /\ \/ \E v \in ScoreValues :
             run' = [run EXCEPT !.pc = "score_train",
                                !.test_scores = Append(@, v)]
       \/ run' = [run EXCEPT !.pc = "raised", !.failed = TRUE, !.exc = "score"]
    /\ UNCHANGED <<files, workflow>>
    /\ UNCHANGED notN

\* train_scores.append(score_func(y_train, pipeline_outer.predict(X_train)))
NCV_score_train ==
    /\ run.pc = "score_train"
    /\ \/ \E v \in ScoreValues :
             run' = [run EXCEPT !.pc = "loop", !.train_scores = Append(@, v)]
       \/ run' = [run EXCEPT !.pc = "raised", !.failed = TRUE, !.exc = "score"]
    /\ UNCHANGED <<files, workflow>>
    /\ UNCHANGED notN

\* After the loop: output.update(means, variances, feature_votes); the write
\* of the record when path_tmp_results is given and, inside that branch and
\* after the write, output['exp_duration'] when verbose > 0.
NCV_aggregate ==
    /\ run.pc = "aggregate"
    /\ LET stats == [test_score |-> np_mean(run.test_scores),
                     train_score |-> np_mean(run.train_scores),
                     test_score_variance |-> np_var(run.test_scores),
                     train_score_variance |-> np_var(run.train_scores),
                     feature_votes |-> run.feature_votes]
           output == Update(run.output, stats)
       IN IF run.path_tmp_results # NoPath
          THEN /\ files' = write_prelim_results(run.case_file, output)
               /\ run' = [run EXCEPT !.pc = "return", !.writes = @ + 1,
                             !.output = IF run.verbose > 0
                                        THEN Update(output, [exp_duration |-> "duration"])
                                        ELSE output]
          ELSE /\ files' = files
               /\ run' = [run EXCEPT !.pc = "return", !.output = output]
    /\ UNCHANGED workflow
    /\ UNCHANGED notN

\* return output
NCV_return ==
    /\ run.pc = "return"
    /\ run' = [run EXCEPT !.pc = "returned"]
    /\ UNCHANGED <<files, workflow>>
    /\ UNCHANGED notN

NNext ==
    \/ NCV_call
    \/ NCV_next_fold
    \/ NCV_search
    \/ NCV_final_fit
    \/ NCV_vote
    \/ NCV_score_test
    \/ NCV_score_train
    \/ NCV_aggregate
    \/ NCV_return

SpecNested == NInit /\ [][NNext]_vars

\* ------------------------------------------------------- selector: steps
SInit ==
    /\ PIdle
    /\ RIdle
    /\ EIdle
    /\ NIdle
    /\ BIdle
    /\ selector = NoSelector
    /\ sel_call = NoSelCall

\* cls(error_handling=...): BaseSelector.__init__ runs first in every class;
\* it raises ValueError, and the constructor call yields no instance, for a
\* value outside VALID_ERROR_MECHANISMS; otherwise the instance is made and
\* its support is None.
BaseSelector_init ==
    /\ \E cls \in SelectorClasses, error_handling \in ErrorHandlings :
          IF error_handling \in VALID_ERROR_MECHANISMS
          THEN /\ selector' = [exists |-> TRUE, error_handling |-> error_handling,
                               support |-> NoneSupport]
               /\ sel_call' = [NoSelCall EXCEPT !.op = "__init__", !.cls = cls,
                                                !.error_handling = error_handling,
                                                !.created = TRUE]
          ELSE /\ selector' = selector
               /\ sel_call' = [NoSelCall EXCEPT !.op = "__init__", !.cls = cls,
                                                !.error_handling = error_handling,
                                                !.exc = "ValueError"]
    /\ UNCHANGED notS

\* self.support = self.check_support(support, X), as every selector's fit ends;
\* the method is BaseSelector's in every class.
BaseSelector_check_support ==
    /\ selector.exists
    /\ \E ncols \in 1..NumFeatures :
          \E support \in SupportInputs(ncols) :
             LET r == check_support(selector.error_handling, support, ncols)
             IN /\ selector' = IF r.exc = "" THEN [selector EXCEPT !.support = r.val]
                               ELSE selector
                /\ sel_call' = [NoSelCall EXCEPT !.op = "check_support",
                                   !.error_handling = selector.error_handling,
                                   !.support = support, !.ncols = ncols,
                                   !.exc = r.exc, !.val = r.val]
    /\ UNCHANGED notS

SNext ==
    \/ BaseSelector_init
    \/ BaseSelector_check_support

SpecSelector == SInit /\ [][SNext]_vars

\* ----------------------------------------------------------- bbc_cv: steps
BInit ==
    /\ PIdle
    /\ RIdle
    /\ EIdle
    /\ NIdle
    /\ SIdle
    /\ bbc = NoBbc

\* bbc_cv(scores, n_iter, random_state) up to its loop.  model_selection.py
\* does not compile (line 48 is a for header without colon or body) and line
\* 46 reads the undefined name n_splits, so a call either fails there or, with
\* the unfinished lines 46-48 left out, reaches the loop with loss_bbc = 0.
bbc_cv_call ==
    /\ bbc.pc = "idle"
    /\ \E n \in 1..MaxRows, n_iter \in 1..MaxIter :
          \E scores \in [1..n -> [1..NumConfigs -> 0..MaxLoss]] :
             LET entered == [NoBbc EXCEPT !.scores = scores, !.n_iter = n_iter]
             IN \/ bbc' = [entered EXCEPT !.pc = "raised", !.exc = "NameError"]
                \/ bbc' = [entered EXCEPT !.pc = "loop"]
    /\ UNCHANGED notB

\* One pass of `for _ in range(n_iter)`: idxs drawn from the global np.random
\* (random_state is not used), loss_bbc = loss_bbc + np.argmin(scores[idxs, :]);
\* after n_iter passes, return loss_bbc / n_iter.
bbc_cv_iter ==
    /\ bbc.pc = "loop"
    /\ IF bbc.it < bbc.n_iter
       THEN \E idxs \in [1..Len(bbc.scores) -> 0..(Len(bbc.scores) - 1)] :
               bbc' = [bbc EXCEPT !.it = @ + 1,
                          !.loss_bbc = @ + np_argmin(
                              [r \in 1..Len(idxs) |-> bbc.scores[idxs[r] + 1]])]
       ELSE bbc' = [bbc EXCEPT !.pc = "returned",
                               !.result = Rat(bbc.loss_bbc, bbc.n_iter)]
    /\ UNCHANGED notB

BNext ==
    \/ bbc_cv_call
    \/ bbc_cv_iter

SpecBbc == BInit /\ [][BNext]_vars

\* ------------------------------------------------- .632+ estimator: calls
PInit ==
    /\ RIdle
    /\ EIdle
    /\ NIdle
    /\ SIdle
    /\ BIdle
    /\ est = NoEst

\* relative_overfit_rate(train_score, test_score, gamma) on any three floats.
Call_relative_overfit_rate ==
    /\ est.op = ""
    /\ \E train_score \in Floats, test_score \in Floats, gamma \in Floats :
          LET r == relative_overfit_rate(train_score, test_score, gamma)
          IN est' = [NoEst EXCEPT !.op = "relative_overfit_rate",
                                  !.args = <<train_score, test_score, gamma>>,
                                  !.exc = r.exc, !.val = r.val]
    /\ UNCHANGED notP

\* point632plus(train_score, test_score, r_marked, test_score_marked) on any
\* four floats.
Call_point632plus ==
    /\ est.op = ""
    /\ \E train_score \in Floats, test_score \in Floats,
          r_marked \in Floats, test_score_marked \in Floats :
          LET r == point632plus(train_score, test_score, r_marked, test_score_marked)
          IN est' = [NoEst EXCEPT !.op = "point632plus",
                        !.args = <<train_score, test_score, r_marked, test_score_marked>>,
                        !.exc = r.exc, !.val = r.val]
    /\ UNCHANGED notP

\* no_info_rate(y_true, y_pred) on any two label vectors.
Call_no_info_rate ==
    /\ est.op = ""
    /\ \E y_true \in BinaryVectors, y_pred \in BinaryVectors :
          est' = [NoEst EXCEPT !.op = "no_info_rate",
                               !.args = <<y_true, y_pred>>,
                               !.val = no_info_rate(y_true, y_pred)]
    /\ UNCHANGED notP

\* point632plus_score(y_true, y_pred, train_score, test_score); its locals
\* gamma and r_marked are kept with the outcome.
Call_point632plus_score ==
    /\ est.op = ""
    /\ \E y_true \in BinaryVectors, y_pred \in BinaryVectors,
          train_score \in Floats, test_score \in Floats :
          LET gamma == no_info_rate(y_true, y_pred)
              r_marked == relative_overfit_rate(train_score, test_score, gamma)
              r == point632plus_score(y_true, y_pred, train_score, test_score)
          IN est' = [NoEst EXCEPT !.op = "point632plus_score",
                        !.args = <<y_true, y_pred, train_score, test_score>>,
                        !.gamma = gamma, !.r_marked = r_marked.val,
                        !.exc = r.exc, !.val = r.val]
    /\ UNCHANGED notP

PNext ==
    \/ Call_relative_overfit_rate
    \/ Call_point632plus
    \/ Call_no_info_rate
    \/ Call_point632plus_score

SpecEstimator == PInit /\ [][PNext]_vars

\* ------------------------------------------------------------------ claims
\* C1: every pair (train_idx, test_idx) yielded by a resampler's split has
\* train_idx of length nrows with entries in [0, nrows), and test_idx lists,
\* without duplicates, exactly the indices of 0..nrows-1 that train_idx does
\* not contain (so it is empty exactly when every index was drawn).
C1_OobPartition ==
    \A pair \in (IF latest = <<>> THEN {} ELSE {latest}) \cup Range(expect) :
        LET train_idx == pair[1]
            test_idx == pair[2]
        IN /\ Len(train_idx) = nrows
           /\ Range(train_idx) \subseteq 0..(nrows - 1)
           /\ Range(test_idx) = (0..(nrows - 1)) \ Range(train_idx)
           /\ Range(test_idx) \cap Range(train_idx) = {}
           /\ Cardinality(Range(test_idx)) = Len(test_idx)
           /\ (test_idx = <<>>) <=> (Range(train_idx) = 0..(nrows - 1))

\* Witness of C1: over two rows, the pair yielded last drew a row twice (its
\* test_idx holds the other row) and an earlier pair drew both rows (its
\* test_idx is empty).
C1_Witness ==
    /\ nrows = 2
    /\ latest # <<>>
    /\ latest[1][1] = latest[1][2]
    /\ Len(latest[2]) = 1
    /\ \E k \in 1..Len(expect) :
          /\ expect[k][1][1] # expect[k][1][2]
          /\ expect[k][2] = <<>>

\* C2: a resampler built with a fixed seed yields exactly n_splits pairs per
\* split call and a second split call on the same object yields the same
\* sequence of pairs as the first (stated of both resampler classes).
C2_Restartable ==
    sampler.random_state # None =>
        /\ gen.state = "exhausted" => gen.i = sampler.n_splits
        /\ (calls = 2 /\ gen.state = "exhausted") => agree

\* C3: scale_fit_predict632 lets no exception reach its caller; it returns
\* (None, None) when a statement of its try block raised and two scores
\* otherwise, never a pair with exactly one None.
C3_NeverPropagates ==
    \A i \in 1..Len(evals) :
        LET e == evals[i]
        IN /\ e.pc = "returned"
           /\ e.exc = ""
           /\ e.caught # "" =>
                 e.train_632_score = NoneVal /\ e.test_632_score = NoneVal
           /\ e.caught = "" =>
                 e.train_632_score # NoneVal /\ e.test_632_score # NoneVal
           /\ (e.train_632_score = NoneVal) <=> (e.test_632_score = NoneVal)

\* Witness of C3: one call swallowed a ValueError raised in its try block and
\* returned (None, None), another call returned two numeric scores.
C3_Witness ==
    \E i, j \in 1..Len(evals) :
        /\ evals[i].caught = "ValueError"
        /\ evals[i].train_632_score = NoneVal
        /\ evals[j].caught = ""
        /\ evals[j].train_632_score.kind = "num"
        /\ evals[j].test_632_score.kind = "num"

\* C10: two scale_fit_predict632 calls with the same model, X_train and
\* y_train but different X_test compute the same scaler parameters and the
\* same standardized training matrix, and, when both get as far as model.fit
\* (X_test has rows), fit the model on the same data and get the same raw
\* train_score.
C10_NoTestLeakage ==
    \A i, j \in 1..Len(evals) :
        /\ evals[i].scaler = evals[j].scaler
        /\ evals[i].X_train_std = evals[j].X_train_std
        /\ (Len(evals[i].X_test) > 0 /\ Len(evals[j].X_test) > 0) =>
              /\ evals[i].fitted = evals[j].fitted
              /\ evals[i].train_score = evals[j].train_score

\* Witness of C10: two calls with different non-empty X_test both fitted the
\* model and scored the training predictions.
C10_Witness ==
    \E i, j \in 1..Len(evals) :
        /\ Len(evals[i].X_test) > 0
        /\ Len(evals[j].X_test) > 0
        /\ evals[i].X_test # evals[j].X_test
        /\ evals[i].fitted # NoFit
        /\ evals[i].train_score.kind = "num"
        /\ evals[i].X_test_std # evals[j].X_test_std

\* The file that holds the record of key (random_state, experiment_id).
KeyFile == <<TmpDir, "experiment", run.random_state, ExperimentId>>

\* C4: when the call finds a persisted file for its key (random_state,
\* experiment_id) under path_tmp_results it returns that record unchanged and
\* runs no fold: no split, no search, no fit, no score, and no write.
C4_ResumeReturnsPersisted ==
    /\ (run.pc # "idle" /\ run.path_tmp_results = TmpDir
          /\ KeyFile \in DOMAIN files /\ run.writes = 0) =>
          /\ run.resumed
          /\ run.pc \in {"return", "returned"}
          /\ run.output = files[KeyFile]
    /\ run.resumed =>
          /\ files \in {(<<TmpDir, "experiment", 7, ExperimentId>> :> rec) :
                           rec \in PriorRecords}
          /\ run.splits = 0 /\ run.searches = 0 /\ run.fits = 0
          /\ run.fold = 0 /\ run.writes = 0
          /\ run.test_scores = <<>> /\ run.train_scores = <<>>

\* Witness of C4: a call with the key of the persisted file has returned the
\* persisted record.
C4_Witness ==
    /\ run.pc = "returned"
    /\ run.resumed
    /\ run.random_state = 7
    /\ run.output \in PriorRecords

\* C5: in a call that does not resume, the vote tally starts at zero and gains
\* at most 1 per fold at an index, so every entry lies in [0, folds begun] and
\* the sum is at most folds begun times MaxSel; once the loop has ended exactly
\* cv folds have run: cv splits, cv searches, cv final fits, cv test scores
\* and cv train scores, and the returned record carries the tally.
C5_FoldsAndVotes ==
    (run.pc # "idle" /\ ~run.resumed) =>
        /\ run.fold = 0 => \A i \in DOMAIN run.feature_votes : run.feature_votes[i] = 0
        /\ \A i \in DOMAIN run.feature_votes : run.feature_votes[i] \in 0..run.fold
        /\ SeqSum([k \in 1..NumFeatures |-> run.feature_votes[k - 1]])
              <= run.fold * MaxSel
        /\ run.fold <= run.cv
        /\ run.pc \in {"aggregate", "return", "returned"} =>
              /\ run.fold = run.cv
              /\ run.splits = run.cv
              /\ run.searches = run.cv
              /\ run.fits = run.cv
              /\ Len(run.test_scores) = run.cv
              /\ Len(run.train_scores) = run.cv
        /\ run.pc \in {"return", "returned"} =>
              run.output.feature_votes = run.feature_votes

\* Witness of C5: a call that ran its cv folds has returned a tally in which
\* one feature was voted in every fold and another in only some.
C5_Witness ==
    /\ run.pc = "returned"
    /\ ~run.resumed
    /\ run.fold = run.cv
    /\ run.feature_votes[0] = run.cv
    /\ run.feature_votes[1] \in 1..(run.cv - 1)

\* C6: a fold that raises (in the search, the final fit, a predict or a
\* score_func call) does not end the call: the call is never left by that
\* exception, it goes on and returns a record.
C6_FailedFoldDoesNotAbort ==
    run.failed => run.pc # "raised"

\* C7: the returned record exposes the configuration chosen in every outer
\* fold: for every best_config chosen during the call, the record holds that
\* configuration's value of each hyperparameter.
C7_AllConfigsExposed ==
    (run.pc = "returned" /\ ~run.resumed) =>
        \A cfg \in run.chosen : run.output.C = cfg.C

\* C8: check_support never fails on an empty selection and applies the
\* policy: return_all gives the 1-D range 0..X.shape[1]-1, return_NaN gives
\* the NaN sentinel without raising; a non-empty support comes back as a 1-D
\* array of the same indices.
C8_EmptySelectionPolicy ==
    sel_call.op = "check_support" =>
        LET empty == np_size(sel_call.support) < 1
        IN /\ sel_call.exc = ""
           /\ (empty /\ sel_call.error_handling = "return_all") =>
                 sel_call.val = arange_array(sel_call.ncols)
           /\ (empty /\ sel_call.error_handling = "return_NaN") =>
                 sel_call.val.kind = "float"
           /\ ~empty =>
                 sel_call.val = NdArray(<<Len(sel_call.support.data)>>,
                                        sel_call.support.data)

\* Column j of the matrix has the strictly lowest loss on every row.
Dominant(scores, j) ==
    \A r \in 1..Len(scores) : \A c \in 1..NumConfigs :
        c # j => scores[r][j] < scores[r][c]

\* The loss of configuration j: the mean of column j over the rows.
ColumnLoss(scores, j) ==
    Rat(SeqSum([r \in 1..Len(scores) |-> scores[r][j]]), Len(scores))

\* C9: on a matrix with a column of strictly lowest loss on every row, bbc_cv
\* returns (it does not fail) and what it returns is that column's loss,
\* whatever n_iter and the resampled rows.
C9_BbcReturnsDominantLoss ==
    (bbc.pc # "idle") =>
        \A j \in 1..NumConfigs :
            Dominant(bbc.scores, j) =>
                /\ bbc.pc # "raised"
                /\ bbc.pc = "returned" => bbc.result = ColumnLoss(bbc.scores, j)

\* C11: relative_overfit_rate never fails on a zero divisor, returns exactly 0
\* whenever test_score <= train_score or gamma <= train_score, returns the
\* ratio (test_score - train_score) / (gamma - train_score) when and only when
\* test_score > train_score and gamma > train_score, and never returns a
\* negative value.
C11_OverfitRateGuard ==
    est.op = "relative_overfit_rate" =>
        LET tr == est.args[1]
            te == est.args[2]
            ga == est.args[3]
            both == /\ IsNum(tr) /\ IsNum(te) /\ IsNum(ga)
                    /\ te.n * tr.d > tr.n * te.d
                    /\ ga.n * tr.d > tr.n * ga.d
            teLeq == IsNum(tr) /\ IsNum(te) /\ te.n * tr.d <= tr.n * te.d
            gaLeq == IsNum(tr) /\ IsNum(ga) /\ ga.n * tr.d <= tr.n * ga.d
        IN /\ est.exc = ""
           /\ IsNum(est.val)
           /\ est.val.n >= 0
           /\ (teLeq \/ gaLeq) => est.val = Zero
           /\ ~both => est.val = Zero
           /\ both => est.val = Rat((te.n * tr.d - tr.n * te.d) * ga.d,
                                    (ga.n * tr.d - tr.n * ga.d) * te.d)

\* Witness of C11: a call with test_score > train_score and gamma = train_score,
\* where the ratio's divisor would be zero, has returned 0.
C11_Witness ==
    /\ est.op = "relative_overfit_rate"
    /\ FGreater(est.args[2], est.args[1])
    /\ est.args[3] = est.args[1]
    /\ est.exc = ""
    /\ est.val = Zero

\* C12: point632plus with r_marked = 0 returns 0.368*train_score +
\* 0.632*test_score for all numbers train_score, test_score and
\* test_score_marked.
C12_ZeroRateNoCorrection ==
    (/\ est.op = "point632plus"
     /\ est.args[3] = Zero
     /\ IsNum(est.args[1]) /\ IsNum(est.args[2]) /\ IsNum(est.args[4])) =>
        /\ est.exc = ""
        /\ est.val = Rat(368 * est.args[1].n * est.args[2].d
                            + 632 * est.args[2].n * est.args[1].d,
                         1000 * est.args[1].d * est.args[2].d)

\* Witness of C12: a call with r_marked = 0 and test_score_marked different
\* from train_score has returned a number.
C12_Witness ==
    /\ est.op = "point632plus"
    /\ est.args[3] = Zero
    /\ IsNum(est.args[1]) /\ IsNum(est.args[2]) /\ IsNum(est.args[4])
    /\ est.args[4] # est.args[1]
    /\ est.args[1] # est.args[2]
    /\ IsNum(est.val)

\* C13: for non-empty binary vectors no_info_rate(y_true, y_pred) is
\* p + q - 2pq with p = mean(y_true), q = mean(y_pred); it is the same with the
\* arguments swapped, lies in [0, 1], and is 2p(1-p) when y_pred = y_true.
C13_NoInfoRate ==
    (/\ est.op = "no_info_rate"
     /\ est.args[1] # <<>>
     /\ est.args[2] # <<>>) =>
        LET pn == SeqSum(est.args[1])
            pd == Len(est.args[1])
            qn == SeqSum(est.args[2])
            qd == Len(est.args[2])
        IN /\ est.val = Rat(pn * qd + qn * pd - 2 * pn * qn, pd * qd)
           /\ est.val = no_info_rate(est.args[2], est.args[1])
           /\ est.val.n >= 0
           /\ est.val.n <= est.val.d
           /\ est.args[1] = est.args[2] =>
                 est.val = Rat(2 * pn * (pd - pn), pd * pd)

\* Witness of C13: no_info_rate(y, y) of a vector with one 0 and one 1 is 1/2.
C13_Witness ==
    /\ est.op = "no_info_rate"
    /\ est.args[1] = est.args[2]
    /\ SeqSum(est.args[1]) = 1
    /\ Len(est.args[1]) = 2
    /\ est.val = Rat(1, 2)

\* C14: constructing a selector of any class with an error_handling other
\* than 'return_all' and 'return_NaN' raises ValueError and makes no instance;
\* with either of the two the instance is made and its support is None.
C14_ConstructorValidates ==
    sel_call.op = "__init__" =>
        IF sel_call.error_handling \in {"return_all", "return_NaN"}
        THEN /\ sel_call.exc = ""
             /\ sel_call.created
             /\ selector.exists
             /\ selector.error_handling = sel_call.error_handling
             /\ selector.support = NoneSupport
        ELSE /\ sel_call.exc = "ValueError"
             /\ ~sel_call.created

\* Witness of C14: with no instance made before, MRMRSelection('ignore') has
\* raised ValueError and there is still no instance.
C14_Witness ==
    /\ sel_call.op = "__init__"
    /\ sel_call.cls = "MRMRSelection"
    /\ sel_call.error_handling = "ignore"
    /\ sel_call.exc = "ValueError"
    /\ ~selector.exists

\* C15: for train_score and test_score in [0, 1] and non-empty binary vectors
\* y_true, y_pred, the overfit rate r_marked that point632plus_score hands to
\* point632plus lies in [0, 1], no division by zero occurs and the returned
\* score is a number.
C15_RateInUnitInterval ==
    (/\ est.op = "point632plus_score"
     /\ est.args[1] # <<>>
     /\ est.args[2] # <<>>
     /\ IsNum(est.args[3]) /\ est.args[3].n >= 0 /\ est.args[3].n <= est.args[3].d
     /\ IsNum(est.args[4]) /\ est.args[4].n >= 0 /\ est.args[4].n <= est.args[4].d) =>
        /\ est.exc = ""
        /\ IsNum(est.r_marked)
        /\ est.r_marked.n >= 0
        /\ est.r_marked.n <= est.r_marked.d
        /\ IsNum(est.val)

\* C16: a scale_fit_predict632 call whose test partition has no rows returns
\* (None, None); it never returns scores computed from the empty partition.
C16_EmptyTestGivesNone ==
    \A i \in 1..Len(evals) :
        Len(evals[i].X_test) = 0 =>
            /\ evals[i].pc = "returned"
            /\ evals[i].caught # ""
            /\ evals[i].train_632_score = NoneVal
            /\ evals[i].test_632_score = NoneVal
            /\ evals[i].test_score = NoneVal

\* Witness of C16: a call with an empty test partition and a model and score
\* function that do not raise has returned (None, None) after a ValueError.
C16_Witness ==
    \E i \in 1..Len(evals) :
        /\ Len(evals[i].X_test) = 0
        /\ model = "threshold"
        /\ score_func = "accuracy"
        /\ evals[i].caught = "ValueError"
        /\ evals[i].train_632_score = NoneVal
        /\ evals[i].test_632_score = NoneVal

\* C17: during and after a run the caller's template is never fitted and its
\* parameters are never set; pipeline_inner is, in every fold, a new object
\* with the template's content that the search leaves unfitted and at the
\* default parameters (the inner folds work on copies of it), and the final
\* fit of every fold works on another new object, which alone gets that fold's
\* best_config.
C17_TemplateUntouched ==
    /\ workflow = Template
    /\ (run.fold >= 1) =>
          /\ run.pipeline_inner.id \notin {workflow.id, None}
          /\ run.pipeline_inner = [Template EXCEPT !.id = run.pipeline_inner.id]
          /\ run.pipeline_inner.id <= run.copies
    /\ (run.pc = "search") => run.pipeline_inner.id = run.copies
    /\ (run.fits >= 1) =>
          /\ run.pipeline_outer.id \notin {workflow.id, None, run.pipeline_inner.id}
          /\ run.pipeline_outer.params \in Configs
          /\ run.pipeline_outer.id <= run.copies
    /\ (run.pc \in {"vote", "score_test", "score_train"}) =>
          /\ run.pipeline_outer.id = run.copies
          /\ run.pipeline_outer.params = run.best_config
          /\ run.pipeline_outer.fitted

\* Witness of C17: a run of cv folds in which two different configurations
\* were chosen has returned; its last pipeline_outer is fitted and the
\* template is as the caller passed it.
C17_Witness ==
    /\ run.pc = "returned"
    /\ ~run.resumed
    /\ run.fold = run.cv
    /\ Cardinality(run.chosen) = 2
    /\ run.pipeline_outer.fitted
    /\ run.copies >= 3 * run.cv
    /\ workflow = Template

\* C18: when a run that did its folds under a path_tmp_results has returned,
\* the record in its file equals the record it returned (the elapsed duration
\* included), for every verbose; a later call with the same key, which
\* returns the file's record, then returns an equal record.
C18_WrittenEqualsReturned ==
    (run.pc = "returned" /\ ~run.resumed /\ run.path_tmp_results # NoPath) =>
        /\ isfile(run.case_file)
        /\ read_prelim_result(run.case_file) = run.output

====
